---- MODULE Spec2Model ----
(***************************************************************************)
(* The patch validation and application engine of the Serum preset editor  *)
(* (server/validate.ts), the proposer (server/llm.ts) and the /api/modify  *)
(* handler that chains them.                                               *)
(*                                                                         *)
(* A string is a sequence of one-character strings, so that the regular    *)
(* expression, split('/') and the escape handling are computed.  A JSON    *)
(* value is a record [k, n, o, a]: k the kind, n the payload of a scalar,  *)
(* o the members of an object as a set of <<key, value>> pairs (so member  *)
(* order is irrelevant to equality) and a the elements of an array.        *)
(***************************************************************************)
EXTENDS Integers, Sequences, FiniteSets, TLC

\* ---------------------------------------------------------------- strings

Digits == {"0", "1", "2", "3"}

DigitValue(c) == CASE c = "0" -> 0 [] c = "1" -> 1 [] c = "2" -> 2 [] OTHER -> 3

\* String.prototype.split('/')
RECURSIVE split(_)
split(s) ==
    IF \A i \in 1..Len(s) : s[i] # "/" THEN <<s>>
    ELSE LET i == CHOOSE x \in 1..Len(s) : s[x] = "/" /\ \A j \in 1..(x - 1) : s[j] # "/"
         IN  <<SubSeq(s, 1, i - 1)>> \o split(SubSeq(s, i + 1, Len(s)))

\* Array.prototype.join('/')
RECURSIVE join(_)
join(segs) ==
    IF Len(segs) = 0 THEN <<>>
    ELSE IF Len(segs) = 1 THEN segs[1]
    ELSE segs[1] \o <<"/">> \o join(Tail(segs))

\* s.replace(/<a><b>/g, <c>): every occurrence of the two characters a b, left to right
RECURSIVE replaceAll(_, _, _, _)
replaceAll(s, a, b, c) ==
    IF Len(s) < 2 THEN s
    ELSE IF s[1] = a /\ s[2] = b THEN <<c>> \o replaceAll(SubSeq(s, 3, Len(s)), a, b, c)
    ELSE <<s[1]>> \o replaceAll(Tail(s), a, b, c)

\* fast-json-patch unescapePathComponent: path.replace(/~1/g, '/').replace(/~0/g, '~')
unescapePathComponent(seg) == replaceAll(replaceAll(seg, "~", "1", "/"), "~", "0", "~")

\* fast-json-patch isInteger: every character is a decimal digit (true of '')
isInteger(seg) == \A i \in 1..Len(seg) : seg[i] \in Digits

\* ~~key on a string of digits ('' gives 0)
RECURSIVE toInt(_)
toInt(seg) ==
    IF Len(seg) = 0 THEN 0
    ELSE 10 * toInt(SubSeq(seg, 1, Len(seg) - 1)) + DigitValue(seg[Len(seg)])

\* the canonical array index strings: the only strings arr[key] reads an element by
IsArrayIndexString(seg) ==
    /\ Len(seg) >= 1
    /\ isInteger(seg)
    /\ (Len(seg) > 1 => seg[1] # "0")

\* /^\/(?:[^~\/]|~0|~1)*(?:\/(?:[^~\/]|~0|~1)*)*$/ from position i on: a '~' is
\* consumed only together with a following '0' or '1'
RECURSIVE matchTokens(_, _)
matchTokens(s, i) ==
    IF i > Len(s) THEN TRUE
    ELSE IF s[i] = "~"
         THEN i + 1 <= Len(s) /\ s[i + 1] \in {"0", "1"} /\ matchTokens(s, i + 2)
         ELSE matchTokens(s, i + 1)

\* a pattern that asks for the leading slash only
jsonPointerPatternSlashOnly(s) == Len(s) >= 1 /\ s[1] = "/"

jsonPointerPattern(s) == Len(s) >= 1 /\ s[1] = "/" /\ matchTokens(s, 2)

\* ----------------------------------------------------------------- values

Undefined == [k |-> "undefined", n |-> 0, o |-> {}, a |-> <<>>]
Null == [k |-> "null", n |-> 0, o |-> {}, a |-> <<>>]
Num(x) == [k |-> "number", n |-> x, o |-> {}, a |-> <<>>]
Bool(x) == [k |-> "boolean", n |-> x, o |-> {}, a |-> <<>>]
\* a one-character string; n names the character
Str(x) == [k |-> "string", n |-> x, o |-> {}, a |-> <<>>]
Obj(members) == [k |-> "object", n |-> 0, o |-> members, a |-> <<>>]
Arr(elems) == [k |-> "array", n |-> 0, o |-> {}, a |-> elems]

\* typeof
typeOf(v) == IF v.k \in {"null", "array"} THEN "object" ELSE v.k

isArray(v) == v.k = "array"

\* !v
isFalsy(v) ==
    \/ v.k \in {"undefined", "null"}
    \/ v.k = "number" /\ v.n = 0
    \/ v.k = "boolean" /\ v.n = 0

\* reading v[key] throws a TypeError
throwsOnRead(v) == v.k \in {"undefined", "null"}

hasOwn(v, key) == \E p \in v.o : p[1] = key

\* v[key] for a string key, v neither null nor undefined
getProp(v, key) ==
    CASE v.k = "object" ->
            IF hasOwn(v, key) THEN (CHOOSE p \in v.o : p[1] = key)[2] ELSE Undefined
      [] v.k = "array" ->
            IF IsArrayIndexString(key) /\ toInt(key) < Len(v.a)
            THEN v.a[toInt(key) + 1] ELSE Undefined
      [] v.k = "string" -> IF key = <<"0">> THEN v ELSE Undefined
      [] OTHER -> Undefined

\* arr[i] for a number i
getIndex(v, i) == IF i < Len(v.a) THEN v.a[i + 1] ELSE Undefined

\* obj[key] = val on an object
setProp(v, key, val) == [v EXCEPT !.o = {p \in v.o : p[1] # key} \cup {<<key, val>>}]

\* a delete that leaves the key in place
deletePropKept(v, key) == v

\* delete obj[key]
deleteProp(v, key) == [v EXCEPT !.o = {p \in v.o : p[1] # key}]

\* arr.splice(i, 0, val): a start beyond the end is clamped to the end
spliceInsert(v, i, val) ==
    LET at == IF i > Len(v.a) THEN Len(v.a) ELSE i
    IN  [v EXCEPT !.a = SubSeq(v.a, 1, at) \o <<val>> \o SubSeq(v.a, at + 1, Len(v.a))]

\* arr.splice(i, 1)
spliceRemove(v, i) ==
    IF i < Len(v.a)
    THEN [v EXCEPT !.a = SubSeq(v.a, 1, i) \o SubSeq(v.a, i + 2, Len(v.a))]
    ELSE v

\* n holes of an array, which read as undefined
RECURSIVE holes(_)
holes(n) == IF n <= 0 THEN <<>> ELSE <<Undefined>> \o holes(n - 1)

\* arr[i] = val: writing past the end leaves holes
setIndex(v, i, val) ==
    IF i < Len(v.a) THEN [v EXCEPT !.a[i + 1] = val]
    ELSE [v EXCEPT !.a = v.a \o holes(i - Len(v.a)) \o <<val>>]

\* fast-json-patch _deepClone: JSON.parse(JSON.stringify(obj)) for objects, null
\* for undefined, the value itself for a primitive.  stringify drops members
\* that are undefined and writes null for undefined array elements.
RECURSIVE cloneValue(_)
RECURSIVE cloneElements(_)
cloneElements(elems) ==
    IF Len(elems) = 0 THEN <<>>
    ELSE <<cloneValue(elems[1])>> \o cloneElements(Tail(elems))

cloneValue(v) ==
    CASE v.k = "undefined" -> Null
      [] v.k = "object" ->
            Obj({<<p[1], cloneValue(p[2])>> : p \in {q \in v.o : q[2].k # "undefined"}})
      [] v.k = "array" -> Arr(cloneElements(v.a))
      [] OTHER -> v

\* ------------------------------------------------- fast-json-patch, core

\* An operation: op the kind, path and from as strings, hasFrom / hasValue
\* whether the field is present ('value' in op), value a JSON value.
MkOp(kind, path, hasFrom, from, hasValue, value) ==
    [op |-> kind, path |-> path, hasFrom |-> hasFrom, from |-> from,
     hasValue |-> hasValue, value |-> value]

\* { op: "_get", path: pointer }
getOperation(pointer) == MkOp("_get", pointer, FALSE, <<>>, FALSE, Undefined)

NoError == "none"

\* the key of the last step: a number once an array index was converted
StrKey(s) == [num |-> FALSE, i |-> 0, s |-> s]
NumKey(i) == [num |-> TRUE, i |-> i, s |-> <<>>]

\* obj[key] with the key as the traversal holds it
readKey(obj, key) ==
    IF key.num THEN (IF isArray(obj) THEN getIndex(obj, key.i) ELSE Undefined)
    ELSE getProp(obj, key.s)

\* objOps add, remove, replace, test, _get: obj is not an array.  The build is an
\* ES module (strict): writing a property of a primitive throws a TypeError.
objOps(op, obj, key) ==
    IF throwsOnRead(obj) THEN [err |-> "TypeError", node |-> obj, value |-> Undefined]
    ELSE CASE op.op = "add" ->
                IF obj.k = "object"
                THEN [err |-> NoError, node |-> setProp(obj, key.s, op.value), value |-> Undefined]
                ELSE [err |-> "TypeError", node |-> obj, value |-> Undefined]
           [] op.op = "replace" ->
                IF obj.k = "object"
                THEN [err |-> NoError, node |-> setProp(obj, key.s, op.value),
                      value |-> getProp(obj, key.s)]
                ELSE [err |-> "TypeError", node |-> obj, value |-> Undefined]
           [] op.op = "remove" ->
                IF obj.k = "object"
                THEN [err |-> NoError, node |-> deleteProp(obj, key.s),
                      value |-> getProp(obj, key.s)]
                ELSE IF getProp(obj, key.s) # Undefined
                THEN [err |-> "TypeError", node |-> obj, value |-> Undefined]
                ELSE [err |-> NoError, node |-> obj, value |-> Undefined]
           [] op.op = "test" ->
                [err |-> IF getProp(obj, key.s) = op.value THEN NoError
                         ELSE "TEST_OPERATION_FAILED",
                 node |-> obj, value |-> Undefined]
           [] OTHER -> \* _get
                [err |-> NoError, node |-> obj, value |-> getProp(obj, key.s)]

\* arrOps add, remove, replace, test, _get.  A key that is still a string is no
\* integer: splice reads it as 0, and arr[key] = v sets a property that is no
\* element (invisible to JSON and to the traversal of index strings).
arrOps(op, arr, key) ==
    CASE op.op = "add" ->
            [err |-> NoError,
             node |-> IF key.num THEN spliceInsert(arr, key.i, op.value) ELSE arr,
             value |-> Undefined]
      [] op.op = "replace" ->
            [err |-> NoError,
             node |-> IF key.num THEN setIndex(arr, key.i, op.value) ELSE arr,
             value |-> readKey(arr, key)]
      [] op.op = "remove" ->
            LET at == IF key.num THEN key.i ELSE 0
            IN  [err |-> NoError, node |-> spliceRemove(arr, at), value |-> getIndex(arr, at)]
      [] op.op = "test" ->
            [err |-> IF readKey(arr, key) = op.value THEN NoError
                     ELSE "TEST_OPERATION_FAILED",
             node |-> arr, value |-> Undefined]
      [] OTHER -> [err |-> NoError, node |-> arr, value |-> readKey(arr, key)]

\* the parent node with the child under key replaced (the in-place mutation of a
\* descendant, seen from the ancestor)
withChild(obj, key, child) ==
    CASE obj.k = "object" /\ ~key.num -> setProp(obj, key.s, child)
      [] obj.k = "array" /\ key.num /\ key.i < Len(obj.a) -> setIndex(obj, key.i, child)
      [] OTHER -> obj

NoFragment == [set |-> FALSE, v |-> <<>>]

RECURSIVE applyOperation(_, _, _)
RECURSIVE walk(_, _, _, _, _, _, _)
RECURSIVE validator(_, _, _, _)

\* getValueByPointer(document, pointer): a "_get" operation applied without
\* validation; err is "TypeError" where the traversal reads a property of null
\* or undefined
getValueByPointer(document, pointer) ==
    IF pointer = <<>> THEN [err |-> NoError, doc |-> document, value |-> document]
    ELSE applyOperation(document, getOperation(pointer), FALSE)

\* validate([{ op: "_get", path: from }], document): the JsonPatchError of the
\* validated traversal is returned, any other error is thrown on
validateFrom(document, from) ==
    IF isFalsy(document) THEN NoError
    ELSE applyOperation(cloneValue(document), getOperation(from), TRUE).err

\* the branch of validator for move and copy, e what validate returned
fromVerdict(e) ==
    IF e = "OPERATION_PATH_UNRESOLVABLE" THEN "OPERATION_FROM_UNRESOLVABLE"
    ELSE IF e = "TypeError" THEN e
    ELSE NoError

\* validator(operation, index, document, existingPathFragment); withDocument is
\* FALSE for the first call of applyOperation, which passes no document
validator(op, withDocument, document, existingPathFragment) ==
    IF op.op \notin {"add", "remove", "replace", "move", "copy", "test", "_get"}
    THEN "OPERATION_OP_INVALID"
    ELSE IF Len(op.path) > 0 /\ op.path[1] # "/" THEN "OPERATION_PATH_INVALID"
    ELSE IF op.op \in {"move", "copy"} /\ ~op.hasFrom THEN "OPERATION_FROM_REQUIRED"
    ELSE IF op.op \in {"add", "replace", "test"} /\ (~op.hasValue \/ op.value = Undefined)
    THEN "OPERATION_VALUE_REQUIRED"
    ELSE IF withDocument /\ ~isFalsy(document)
    THEN CASE op.op = "add" ->
                LET pathLen == Len(split(op.path))
                    existingPathLen == Len(split(existingPathFragment))
                IN  IF pathLen # existingPathLen + 1 /\ pathLen # existingPathLen
                    THEN "OPERATION_PATH_CANNOT_ADD" ELSE NoError
           [] op.op \in {"replace", "remove", "_get"} ->
                IF op.path # existingPathFragment
                THEN "OPERATION_PATH_UNRESOLVABLE" ELSE NoError
           [] op.op \in {"move", "copy"} -> fromVerdict(validateFrom(document, op.from))
           [] OTHER -> NoError
    ELSE NoError

\* a move that drops the value it removed
moveTakenDropped(op, taken) == taken

\* objOps.move after `removed` was read: remove at from, then add at path; both
\* are unvalidated and mutate the document one after the other, so a failure of
\* the add leaves the effect of the remove
moveTaken(op, taken) ==
    IF taken.err # NoError THEN taken
    ELSE applyOperation(taken.doc, MkOp("add", op.path, FALSE, <<>>, TRUE, taken.value), FALSE)

moveRead(op, document, removed) ==
    IF removed.err # NoError THEN [err |-> removed.err, doc |-> document, value |-> Undefined]
    ELSE moveTaken(op, applyOperation(document,
                           MkOp("remove", op.from, FALSE, <<>>, FALSE, Undefined), FALSE))

\* objOps.copy after valueToCopy was read
copyRead(op, document, valueToCopy) ==
    IF valueToCopy.err # NoError
    THEN [err |-> valueToCopy.err, doc |-> document, value |-> Undefined]
    ELSE applyOperation(document,
            MkOp("add", op.path, FALSE, <<>>, TRUE, cloneValue(valueToCopy.value)), FALSE)

\* objOps.move / objOps.copy, called with the root document
moveOrCopy(op, document) ==
    IF op.op = "move" THEN moveRead(op, document, getValueByPointer(document, op.path))
    ELSE copyRead(op, document, getValueByPointer(document, op.from))

\* key = keys[t], unescaped when it holds a '~' (keys[t] is undefined, and reads
\* as the property "undefined", when the path has no '/')
keyAt(keys, t) ==
    IF t + 1 > Len(keys) THEN <<"undefined">>
    ELSE IF \E i \in 1..Len(keys[t + 1]) : keys[t + 1][i] = "~"
    THEN unescapePathComponent(keys[t + 1])
    ELSE keys[t + 1]

\* existingPathFragment after the validateOperation block of one turn
fragmentAt(obj, keys, t, fragment, op, validateOperation, key) ==
    IF ~validateOperation \/ fragment.set \/ throwsOnRead(obj) THEN fragment
    ELSE IF getProp(obj, key) = Undefined
         THEN [set |-> TRUE, v |-> join(SubSeq(keys, 1, t))]
    ELSE IF t = Len(keys) - 1 THEN [set |-> TRUE, v |-> op.path]
    ELSE fragment

\* what the validateOperation block of one turn throws
checkedAt(document, obj, fragment, op, validateOperation, fragment1) ==
    IF ~validateOperation \/ fragment.set THEN NoError
    ELSE IF throwsOnRead(obj) THEN "TypeError"
    ELSE IF fragment1.set THEN validator(op, TRUE, document, fragment1.v)
    ELSE NoError

\* the key after the array branch: '-' is the length, digits are a number
keyIn(obj, key) ==
    IF isArray(obj)
    THEN IF key = <<"-">> THEN NumKey(Len(obj.a))
         ELSE IF isInteger(key) THEN NumKey(toInt(key))
         ELSE StrKey(key)
    ELSE StrKey(key)

walkFail(obj, e) == [err |-> e, root |-> FALSE, node |-> obj, value |-> Undefined]

asRoot(r) == [err |-> r.err, root |-> TRUE, node |-> r.doc, value |-> r.value]

asNode(r) == [err |-> r.err, root |-> FALSE, node |-> r.node, value |-> r.value]

\* the ancestor obj after the traversal below it returned r
walkUp(obj, key1, next, r) ==
    IF r.root THEN r
    ELSE [err |-> r.err, root |-> FALSE,
          node |-> IF r.node = next THEN obj ELSE withChild(obj, key1, r.node),
          value |-> r.value]

\* obj = obj[key] and the next turn
walkDown(document, obj, keys, t1, fragment1, op, validateOperation, key1, next) ==
    IF validateOperation /\ t1 < Len(keys) /\ (isFalsy(next) \/ typeOf(next) # "object")
    THEN walkFail(obj, "OPERATION_PATH_UNRESOLVABLE")
    ELSE walkUp(obj, key1, next,
                walk(document, next, keys, t1, fragment1, op, validateOperation))

\* one turn after its validateOperation block, which threw checked
walkOn(document, obj, keys, t1, fragment1, op, validateOperation, key, key1, checked) ==
    IF checked # NoError THEN walkFail(obj, checked)
    ELSE IF isArray(obj) /\ key # <<"-">> /\ validateOperation /\ ~isInteger(key)
    THEN walkFail(obj, "OPERATION_PATH_ILLEGAL_ARRAY_INDEX")
    ELSE IF t1 >= Len(keys)
    THEN IF isArray(obj) /\ validateOperation /\ op.op = "add"
            /\ key1.num /\ key1.i > Len(obj.a)
         THEN walkFail(obj, "OPERATION_VALUE_OUT_OF_BOUNDS")
         ELSE IF op.op \in {"move", "copy"} THEN asRoot(moveOrCopy(op, document))
         ELSE IF isArray(obj) THEN asNode(arrOps(op, obj, key1))
         ELSE asNode(objOps(op, obj, key1))
    ELSE IF throwsOnRead(obj) THEN walkFail(obj, "TypeError")
    ELSE walkDown(document, obj, keys, t1, fragment1, op, validateOperation, key1,
                  readKey(obj, key1))

walkKey(document, obj, keys, t, fragment, op, validateOperation, key, fragment1) ==
    walkOn(document, obj, keys, t + 1, fragment1, op, validateOperation, key,
           keyIn(obj, key),
           checkedAt(document, obj, fragment, op, validateOperation, fragment1))

walkAt(document, obj, keys, t, fragment, op, validateOperation, key) ==
    walkKey(document, obj, keys, t, fragment, op, validateOperation, key,
            fragmentAt(obj, keys, t, fragment, op, validateOperation, key))

\* One turn of the while (true) loop of applyOperation at keys[t] with obj the
\* node reached; the result is [err, root, node, value]: node is obj after the
\* operation, or, when root is TRUE, the whole document after a move or copy.
walk(document, obj, keys, t, fragment, op, validateOperation) ==
    walkAt(document, obj, keys, t, fragment, op, validateOperation, keyAt(keys, t))

walked(r) == [err |-> r.err, doc |-> r.node, value |-> r.value]

applyChecked(document, op, validateOperation, first) ==
    IF first # NoError THEN [err |-> first, doc |-> document, value |-> Undefined]
    ELSE walked(walk(document, document, split(op.path), 1, NoFragment, op,
                     validateOperation))

\* applyOperation(document, operation, validateOperation) with mutateDocument
\* true: [err, doc, value], doc the document after the call (also when it
\* throws, since it is mutated in place), value what _get read or remove took.
\* An operation on the root (path '') is not modelled: the structural pattern
\* admits no empty path and no empty from.
applyOperation(document, op, validateOperation) ==
    applyChecked(document, op, validateOperation,
                 IF validateOperation THEN validator(op, FALSE, document, <<>>)
                 ELSE NoError)

\* ------------------------------------------------------ server/validate.ts

OperationKinds == {"add", "remove", "replace", "copy", "move", "test"}

\* a schema that takes a null value for a missing one
operationSchemaNullIsMissing(op) ==
    /\ op.op \in OperationKinds
    /\ jsonPointerPattern(op.path)
    /\ (op.op \in {"add", "replace", "test"} => op.hasValue /\ op.value # Null)
    /\ (op.op \in {"copy", "move"} => op.hasFrom /\ op.from # <<>>)
    /\ (op.op \in {"move", "copy"} /\ op.hasFrom /\ op.from # <<>>
            => jsonPointerPattern(op.from))

\* operationSchema: the object schema and its superRefine.  from is checked only
\* on move and copy; an empty from is falsy, so "requires a from pointer".
operationSchema(op) ==
    /\ op.op \in OperationKinds
    /\ jsonPointerPattern(op.path)
    /\ (op.op \in {"add", "replace", "test"} => op.hasValue)
    /\ (op.op \in {"copy", "move"} => op.hasFrom /\ op.from # <<>>)
    /\ (op.op \in {"move", "copy"} /\ op.hasFrom /\ op.from # <<>>
            => jsonPointerPattern(op.from))

\* a schema that asks for at least one operation
validatePatchStructureNonEmpty(patch) ==
    IF Len(patch) = 0 \/ \E i \in 1..Len(patch) : ~operationSchema(patch[i])
    THEN "ZodError" ELSE "ok"

\* validatePatchStructure(patch): patchSchema.parse throws a ZodError unless every
\* element passes operationSchema
validatePatchStructure(patch) ==
    IF \A i \in 1..Len(patch) : operationSchema(patch[i]) THEN "ok" ELSE "ZodError"

pointerParent(path) ==
    IF path = <<>> THEN <<>> \* null
    ELSE LET parts == split(path)
             segments == SubSeq(parts, 1, Len(parts) - 1)
         IN  IF Len(segments) <= 1 THEN <<"/">>
             ELSE IF join(segments) = <<>> THEN <<"/">> ELSE join(segments)

\* typeof alone, under which arrays and objects are one kind
getTypeByTypeof(value) == IF value.k = "null" THEN "null" ELSE typeOf(value)

getType(value) ==
    IF value.k = "null" THEN "null"
    ELSE IF isArray(value) THEN "array"
    ELSE typeOf(value)

\* try { getValueByPointer(...); return true } catch { return false }
pathExists(document, pointer) == getValueByPointer(document, pointer).err = NoError

parentExists(document, pointer) ==
    IF pointer = <<"/">> \/ pointer = <<>> THEN TRUE
    ELSE LET parent == pointerParent(pointer)
         IN  IF parent = <<>> THEN TRUE
             ELSE IF parent = <<"/">> /\ Len(split(pointer)) = 2 THEN TRUE
             ELSE pathExists(document, parent)

NoFailure == [err |-> NoError, at |-> 0, expected |-> "", received |-> ""]

Failure(e, i) == [err |-> e, at |-> i, expected |-> "", received |-> ""]

\* a type check that compares null like any other kind
typeCheckNullsToo(got, op, i) ==
    IF got.err # NoError THEN Failure(got.err, i)
    ELSE IF getType(got.value) # getType(op.value)
    THEN [err |-> "TypeMismatch", at |-> i,
          expected |-> getType(got.value), received |-> getType(op.value)]
    ELSE NoFailure

\* lines 97-102: the type check of replace, got what getValueByPointer gave
typeCheck(got, op, i) ==
    IF got.err # NoError THEN Failure(got.err, i)
    ELSE IF got.value.k # "null" /\ op.value.k # "null"
            /\ getType(got.value) # getType(op.value)
    THEN [err |-> "TypeMismatch", at |-> i,
          expected |-> getType(got.value), received |-> getType(op.value)]
    ELSE NoFailure

\* the body of the for loop of validatePatchSemantics for the operation at
\* index i: the first throw it reaches, or NoFailure
checkOperation(document, op, i) ==
    IF op.op \in {"replace", "remove", "test"} /\ ~pathExists(document, op.path)
    THEN Failure("PathNotFound", i)
    ELSE IF op.op = "add" /\ ~parentExists(document, op.path)
    THEN Failure("ParentMissing", i)
    ELSE IF op.op \in {"move", "copy"} /\ op.hasFrom /\ op.from # <<>>
            /\ ~pathExists(document, op.from)
    THEN Failure("SourceNotFound", i)
    ELSE IF op.op = "replace" /\ op.hasValue /\ op.value # Undefined
    THEN typeCheck(getValueByPointer(document, op.path), op, i)
    ELSE NoFailure

\* validatePatchSemantics(document, patch) from operation i on: what it throws,
\* NoFailure when it returns
RECURSIVE validateFrom_i(_, _, _)
firstFailure(document, patch, i, f) ==
    IF f.err # NoError THEN f ELSE validateFrom_i(document, patch, i + 1)

validateFrom_i(document, patch, i) ==
    IF i > Len(patch) THEN NoFailure
    ELSE firstFailure(document, patch, i, checkOperation(document, patch[i], i))

validatePatchSemantics(document, patch) == validateFrom_i(document, patch, 1)

\* a working document that is the caller's object itself
deepCloneAliased(document) == [ref |-> "alias", val |-> document]

\* deepClone(document) of line 111: the working document is another object than
\* the caller's ("clone"); "alias" is the same object under a second name
deepClone(document) == [ref |-> "clone", val |-> cloneValue(document)]

\* ------------------------------------------------------------- the inputs

MaxSegs == 2
MaxOps == 2

Segs == {<<"a">>, <<"b">>, <<"0">>, <<"1">>, <<"2">>, <<"-">>}

\* '/' + segs[1] + '/' + segs[2] ...
RECURSIVE pointerOf(_)
pointerOf(segs) ==
    IF Len(segs) = 0 THEN <<>> ELSE <<"/">> \o segs[1] \o pointerOf(Tail(segs))

RECURSIVE SeqsUpTo(_, _)
SeqsUpTo(S, n) ==
    IF n = 0 THEN {<<>>}
    ELSE LET shorter == SeqsUpTo(S, n - 1)
         IN  shorter \cup {Append(q, x) : q \in {r \in shorter : Len(r) = n - 1}, x \in S}

\* well-formed pointers of one to MaxSegs plain segments
PlainPointers == {pointerOf(q) : q \in SeqsUpTo(Segs, MaxSegs) \ {<<>>}}

\* well-formed pointers with a fresh key, an escape or an empty segment
OddPointers ==
    { <<"/", "c">>, <<"/", "a", "/", "c">>, <<"/", "c", "/", "a">>,
      <<"/", "b", "/", "~", "1">>, <<"/", "b", "/", "~", "0">>,
      <<"/">>, <<"/", "a", "/">> }

\* strings that are no pointer for jsonPointerPattern; the empty string is the
\* root pointer of the JSON Pointer grammar
NonPointers ==
    { <<"a">>, <<"a", "/", "b">>, <<"/", "~">>, <<"/", "a", "~", "b">>,
      <<"/", "~", "2">>, <<>> }

\* pointers of three segments, below a missing, a scalar and a null member
DeepPointers ==
    { <<"/", "c", "/", "a", "/", "b">>, <<"/", "a", "/", "c", "/", "a">>,
      <<"/", "a", "/", "b", "/", "c">>, <<"/", "b", "/", "a", "/", "a">> }

Pointers == PlainPointers \cup OddPointers \cup DeepPointers

FromPointers ==
    { <<"/", "a">>, <<"/", "a", "/", "b">>, <<"/", "a", "/", "0">>, <<"/", "b">>,
      <<"/", "c">>, <<"/", "0">> }

Values == {Num(2), Str(2), Null, Obj({}), Arr(<<>>), Bool(1)}

Key(c) == <<c>>

Documents ==
    { Obj({<<Key("a"), Obj({<<Key("b"), Num(1)>>})>>}),
      Obj({<<Key("a"), Arr(<<Num(1), Num(2)>>)>>, <<Key("b"), Null>>}),
      Obj({<<Key("a"), Str(1)>>,
           <<Key("b"), Obj({<<Key("a"), Null>>, <<Key("/"), Num(1)>>})>>}),
      Obj({<<Key("a"), Obj({<<Key("a"), Arr(<<>>)>>, <<Key("b"), Bool(1)>>})>>,
           <<Key("b"), Num(1)>>}),
      Arr(<<Obj({<<Key("a"), Num(1)>>}), Num(2)>>) }

WithValue(kind, path, value) == MkOp(kind, path, FALSE, <<>>, TRUE, value)
Remove(path) == MkOp("remove", path, FALSE, <<>>, FALSE, Undefined)
WithFrom(kind, from, path) == MkOp(kind, path, TRUE, from, FALSE, Undefined)

\* the operations a validated patch can hold
PlainOps ==
    {WithValue(kind, p, v) : kind \in {"add", "replace", "test"}, p \in Pointers, v \in Values}
    \cup {Remove(p) : p \in Pointers}
    \cup {WithFrom(kind, f, p) : kind \in {"move", "copy"}, f \in FromPointers, p \in Pointers}

\* operations the proposer can return that are malformed, or carry a stray field
OddOps ==
    {WithValue(kind, p, Num(2)) : kind \in {"add", "replace", "test"}, p \in NonPointers}
    \cup {Remove(p) : p \in NonPointers}
    \cup {WithFrom(kind, <<"/", "a">>, p) : kind \in {"move", "copy"}, p \in NonPointers}
    \cup {WithFrom(kind, f, <<"/", "c">>) : kind \in {"move", "copy"}, f \in NonPointers}
    \cup {MkOp(kind, <<"/", "c">>, TRUE, f, TRUE, Num(2)) :
            kind \in {"add", "replace", "test", "remove"}, f \in NonPointers \cup {<<"/", "a">>}}
    \cup {MkOp(kind, <<"/", "a">>, FALSE, <<>>, FALSE, Undefined) :
            kind \in {"add", "replace", "test", "move", "copy", "frobnicate"}}
    \cup {WithValue("frobnicate", <<"/", "a">>, Num(2))}

\* the operations that patches of several operations are made of
SeveralPointers ==
    { <<"/", "c">>, <<"/", "a", "/", "c">>, <<"/", "a", "/", "2">>,
      <<"/", "a", "/", "3">>, <<"/", "a", "/", "-">>, <<"/", "c", "/", "a">> }

SeveralOps ==
    {WithValue("add", p, v) : p \in SeveralPointers, v \in {Num(2), Obj({})}}
    \cup {WithValue("replace", p, Num(3)) : p \in SeveralPointers}
    \cup {WithValue("add", <<"/", "c">>, Null), WithValue("replace", <<"/", "c">>, Null)}
    \cup {WithValue("test", p, Num(2)) : p \in SeveralPointers}
    \cup {Remove(p) : p \in SeveralPointers}
    \cup { WithFrom("move", <<"/", "a">>, <<"/", "c">>),
           WithFrom("move", <<"/", "c">>, <<"/", "a">>),
           WithFrom("move", <<"/", "a">>, <<"/", "a", "/", "b">>) }

Patches ==
    {<<>>}
    \cup {<<o>> : o \in PlainOps \cup OddOps}
    \cup {q \in SeqsUpTo(SeveralOps, MaxOps) : Len(q) >= 2}

\* ------------------------------------------------------------- the state

VARIABLES
    call,       \* the engine calls of one caller: their arguments, position and results
    stage,      \* 1 for the first patch, 2 once its inverse is applied to the result
    first,      \* the document and patch of stage 1
    request,    \* the body of the /api/modify request being handled
    env,        \* the proposer's surroundings: the API key and the model's reply
    response,   \* the response sent, status 0 while none is
    others,     \* the requests of the server that are not running now
    ui          \* the state of the App component and its request in flight

vars == <<call, stage, first, request, env, response, others, ui>>

NoResult == [kind |-> "none", failure |-> NoFailure, doc |-> Undefined]

\* a caller about to run the engine on document and patch.  mode "direct" calls
\* the three exported functions one after the other, as the unit tests do;
\* mode "handler" is the try block of the /api/modify handler.
NewCall(mode, document, patch, pc) ==
    [ mode |-> mode,
      document |-> document,          \* the caller's document object
      snapshot |-> document,          \* its value when the caller obtained it
      patch |-> patch,
      pc |-> pc,
      log |-> <<>>,                   \* the steps started, in order
      structure |-> "none",           \* what validatePatchStructure did
      semantics |-> NoFailure,        \* what the caller's validatePatchSemantics threw
      workingDocument |-> Undefined,
      workingRef |-> "none",
      applied |-> 0,                  \* operations applyPatch has applied
      result |-> NoResult ]           \* what applyPatchWithValidation gave the caller

\* an exception leaves the try block for the catch in the handler; a direct
\* caller is done
thrown(c) == IF c.mode = "handler" THEN "caught" ELSE "done"

\* line 158 (handler) / the tests: validatePatchStructure(patch)
afterStructure(c, verdict) ==
    IF verdict = "ok" THEN "semantics" ELSE thrown(c)

structureDone(c, verdict) ==
    [c EXCEPT !.structure = verdict,
              !.log = Append(@, "structure"),
              !.pc = afterStructure(c, verdict)]

structureStep(c) == structureDone(c, validatePatchStructure(c.patch))

\* a caller that ignores the semantic verdict
afterSemanticsIgnored(c, f) == "apply"

\* line 159 (handler) / the tests: validatePatchSemantics(json, validatedPatch).
\* The handler's catch ends the request; a direct caller goes on to call
\* applyPatchWithValidation whatever the verdict.
afterSemantics(c, f) ==
    IF f.err = NoError \/ c.mode = "direct" THEN "apply" ELSE thrown(c)

semanticsDone(c, f) ==
    [c EXCEPT !.semantics = f,
              !.log = Append(@, "semantics"),
              !.pc = afterSemantics(c, f)]

semanticsStep(c) == semanticsDone(c, validatePatchSemantics(c.document, c.patch))

\* applyPatchWithValidation line 111
cloned(c, w) ==
    [c EXCEPT !.workingDocument = w.val,
              !.workingRef = w.ref,
              !.log = Append(@, "apply"),
              !.pc = "recheck"]

cloneStep(c) == cloned(c, deepClone(c.document))

\* a failure that hands the working document to the caller
failedWithWorkingDocument(c, f) ==
    [kind |-> "error", failure |-> f, doc |-> c.workingDocument]

\* what the caller receives when applyPatchWithValidation throws
failed(c, f) == [kind |-> "error", failure |-> f, doc |-> Undefined]

\* an apply that does not look at the verdict of its re-check
recheckedIgnored(c, f) == [c EXCEPT !.pc = "applyPatch", !.applied = 0]

\* applyPatchWithValidation line 112
rechecked(c, f) ==
    IF f.err = NoError THEN [c EXCEPT !.pc = "applyPatch", !.applied = 0]
    ELSE [c EXCEPT !.result = failed(c, f), !.pc = thrown(c)]

\* a re-check that looks at the first operation only
recheckStepFirstOnly(c) ==
    rechecked(c, validatePatchSemantics(c.workingDocument,
                                       IF Len(c.patch) = 0 THEN <<>> ELSE <<c.patch[1]>>))

recheckStep(c) == rechecked(c, validatePatchSemantics(c.workingDocument, c.patch))

\* the working document is mutated in place; the caller's document is the same
\* object exactly when the working reference is an alias of it
mutated(c, doc) ==
    [c EXCEPT !.workingDocument = doc,
              !.document = IF c.workingRef = "alias" THEN doc ELSE @]

\* a loop that reports every failure of an operation as a missing path
operationDoneAsSemantic(c, i, r) ==
    IF r.err = NoError THEN [mutated(c, r.doc) EXCEPT !.applied = i]
    ELSE [mutated(c, r.doc) EXCEPT !.result = failed(c, Failure("PathNotFound", i)),
                                   !.pc = thrown(c)]

\* applyPatchWithValidation line 113: one turn of the loop of
\* applyPatch(workingDocument, patch, true, true)
operationDone(c, i, r) ==
    IF r.err = NoError THEN [mutated(c, r.doc) EXCEPT !.applied = i]
    ELSE [mutated(c, r.doc) EXCEPT !.result = failed(c, Failure(r.err, i)),
                                   !.pc = thrown(c)]

\* a loop whose test operations look at the document as the caller passed it
operationStepTestsSnapshot(c) ==
    IF c.patch[c.applied + 1].op = "test"
    THEN operationDone(c, c.applied + 1,
                       [applyOperation(c.snapshot, c.patch[c.applied + 1], TRUE)
                            EXCEPT !.doc = c.workingDocument])
    ELSE operationDone(c, c.applied + 1,
                       applyOperation(c.workingDocument, c.patch[c.applied + 1], TRUE))

operationStep(c) ==
    operationDone(c, c.applied + 1,
                  applyOperation(c.workingDocument, c.patch[c.applied + 1], TRUE))

\* a return of the caller's document instead of the working one
returnedOriginal(c) == [kind |-> "document", failure |-> NoFailure, doc |-> c.document]

\* applyPatchWithValidation line 114: return result.newDocument
returned(c) == [kind |-> "document", failure |-> NoFailure, doc |-> c.workingDocument]

returnStep(c) ==
    [c EXCEPT !.result = returned(c),
              !.pc = IF c.mode = "handler" THEN "respond" ELSE "done"]

\* ----------------------------------------------------------- the actions

\* keys: the keys of the JSON body of the response
Idle == [status |-> 0, patch |-> <<>>, patchedJson |-> Undefined, diffIsNull |-> TRUE,
         error |-> "", keys |-> {}]

NoRequest == [json |-> Undefined, instruction |-> <<>>]

NoEnv == [apiKey |-> FALSE, reply |-> "empty", content |-> <<>>]

NoFirst == [document |-> Undefined, patch |-> <<>>]

MetadataKey == <<"m", "e", "t", "a", "d", "a", "t", "a">>

DataKey == <<"d", "a", "t", "a">>

\* src/src/App.tsx: a text of the editor is the value JSON.parse gives for it, or
\* no value when JSON.parse throws
JSONstringify(value) == [valid |-> TRUE, value |-> value]

\* line 33: status is null
NoStatus == [type |-> "none", text |-> ""]

\* no request of the component is awaited
NoFlight ==
    [ kind |-> "none",            \* "upload", "modify" or "download"
      settled |-> "pending",      \* "fulfilled" or "rejected" once the promise settled
      original |-> Null,          \* presetJson as the handler holds it (line 109)
      instruction |-> <<>>,       \* instruction as the handler holds it
      filename |-> "null",
      reply |-> Idle,             \* the body of a fulfilled modify or upload
      message |-> "" ]            \* the message of the error of a rejected one

\* lines 24-34: the state of the component after its first render
InitialUi ==
    [ filename |-> "null",
      presetJson |-> Null,
      editorValue |-> JSONstringify(Obj({<<MetadataKey, Obj({})>>, <<DataKey, Obj({})>>})),
      editorError |-> "",
      instruction |-> <<>>,
      patch |-> <<>>,
      patchIsNull |-> TRUE,
      diffIsNull |-> TRUE,
      lastOriginalJson |-> Null,
      lastPatchedJson |-> Null,
      status |-> NoStatus,
      isBusy |-> FALSE,
      flight |-> NoFlight ]

Init ==
    /\ \E d \in Documents, p \in Patches : call = NewCall("direct", d, p, "structure")
    /\ stage = 1
    /\ first = NoFirst
    /\ request = NoRequest
    /\ env = NoEnv
    /\ response = Idle
    /\ others = <<>>
    /\ ui = InitialUi

ValidateStructure ==
    /\ call.pc = "structure"
    /\ call' = structureStep(call)
    /\ UNCHANGED <<stage, first, request, env, response, others, ui>>

ValidateSemantics ==
    /\ call.pc = "semantics"
    /\ call' = semanticsStep(call)
    /\ UNCHANGED <<stage, first, request, env, response, others, ui>>

ApplyClone ==
    /\ call.pc = "apply"
    /\ call' = cloneStep(call)
    /\ UNCHANGED <<stage, first, request, env, response, others, ui>>

ApplyRecheck ==
    /\ call.pc = "recheck"
    /\ call' = recheckStep(call)
    /\ UNCHANGED <<stage, first, request, env, response, others, ui>>

ApplyOperation ==
    /\ call.pc = "applyPatch"
    /\ call.applied < Len(call.patch)
    /\ call' = operationStep(call)
    /\ UNCHANGED <<stage, first, request, env, response, others, ui>>

ApplyReturn ==
    /\ call.pc = "applyPatch"
    /\ call.applied = Len(call.patch)
    /\ call' = returnStep(call)
    /\ UNCHANGED <<stage, first, request, env, response, others, ui>>

IsAdds(patch) == Len(patch) > 0 /\ \A i \in 1..Len(patch) : patch[i].op = "add"

IsMove(patch) == Len(patch) = 1 /\ patch[1].op = "move"

\* the remove operations at the paths of adds, in reverse order
RECURSIVE removesOf(_)
removesOf(adds) ==
    IF Len(adds) = 0 THEN <<>>
    ELSE Append(removesOf(Tail(adds)), Remove(adds[1].path))

\* move(from=B, path=A) for move(from=A, path=B)
moveBack(patch) == <<WithFrom("move", patch[1].path, patch[1].from)>>

\* A direct caller that applied a patch of adds, or one move, applies the
\* inverse patch to the document it was returned.
ApplyInverse ==
    /\ call.mode = "direct"
    /\ call.pc = "done"
    /\ stage = 1
    /\ call.result.kind = "document"
    /\ IsAdds(call.patch) \/ IsMove(call.patch)
    /\ first' = [document |-> call.snapshot, patch |-> call.patch]
    /\ stage' = 2
    /\ call' = NewCall("direct", call.result.doc,
                       IF IsMove(call.patch) THEN moveBack(call.patch)
                       ELSE removesOf(call.patch),
                       "structure")
    /\ UNCHANGED <<request, env, response, others, ui>>

Next ==
    \/ ValidateStructure
    \/ ValidateSemantics
    \/ ApplyClone
    \/ ApplyRecheck
    \/ ApplyOperation
    \/ ApplyReturn
    \/ ApplyInverse

Spec == Init /\ [][Next]_vars

\* ------------------------------------------- the /api/modify request handler

Preset(metadata, data) == Obj({<<MetadataKey, metadata>>, <<DataKey, data>>})

\* modifySchema.safeParse(req.body).success
modifySchema(body) ==
    /\ body.json.k = "object"
    /\ hasOwn(body.json, MetadataKey)
    /\ getProp(body.json, MetadataKey).k = "object"
    /\ Len(body.instruction) >= 1

\* parsed.data.json: z.object keeps the keys of its shape and strips the others
parsedJson(json) == [json EXCEPT !.o = {m \in json.o : m[1] \in {MetadataKey, DataKey}}]

RECURSIVE trimStart(_)
trimStart(s) == IF Len(s) > 0 /\ s[1] = " " THEN trimStart(Tail(s)) ELSE s

RECURSIVE trimEnd(_)
trimEnd(s) ==
    IF Len(s) > 0 /\ s[Len(s)] = " " THEN trimEnd(SubSeq(s, 1, Len(s) - 1)) ELSE s

trim(s) == trimEnd(trimStart(s))

Proposed(patch) == [threw |-> FALSE, patch |-> patch]

ProposeFailed == [threw |-> TRUE, patch |-> <<>>]

\* the content of the model's message is text: "prose" has no bracketed part,
\* "garbled" has one that JSON.parse refuses, "array" has the patch in it
parsePatchResponse(reply, content) ==
    IF reply = "empty" THEN Proposed(<<>>)
    ELSE IF reply = "prose" THEN ProposeFailed
    ELSE IF reply = "garbled" THEN ProposeFailed
    ELSE Proposed(content)

proposePatch(instruction, e) ==
    IF trim(instruction) = <<>> THEN Proposed(<<>>)
    ELSE IF ~e.apiKey THEN Proposed(<<>>)
    ELSE IF e.reply = "notOk" THEN ProposeFailed
    ELSE IF e.reply = "empty" THEN Proposed(<<>>)
    ELSE parsePatchResponse(e.reply, e.content)

\* the bodies posted and the replies of the model
UnderData(segs) == <<"/">> \o DataKey \o pointerOf(segs)

ModifyPointers ==
    {UnderData(segs) : segs \in SeqsUpTo({<<"a">>, <<"b">>, <<"c">>, <<"0">>}, MaxSegs)}
    \cup { <<"/">> \o MetadataKey \o <<"/", "a">>, DataKey, <<"/", "d", "~">>, <<>>,
           UnderData(<<<<"a">>, <<"-">>>>) }

ModifyFromPointers == {UnderData(<<<<"a">>>>), UnderData(<<<<"c">>>>), DataKey}

ModifyOps ==
    {WithValue(k, p, v) : k \in {"add", "replace", "test"}, p \in ModifyPointers,
                          v \in {Num(2), Null, Obj({})}}
    \cup {Remove(p) : p \in ModifyPointers}
    \cup {WithFrom(k, f, p) : k \in {"move", "copy"}, f \in ModifyFromPointers,
                              p \in ModifyPointers}
    \cup { MkOp("add", UnderData(<<<<"c">>>>), TRUE, <<"x">>, TRUE, Num(2)),
           MkOp("replace", UnderData(<<<<"a">>>>), FALSE, <<>>, FALSE, Undefined),
           MkOp("move", UnderData(<<<<"c">>>>), FALSE, <<>>, FALSE, Undefined),
           MkOp("frobnicate", UnderData(<<<<"a">>>>), FALSE, <<>>, TRUE, Num(2)) }

ModifySeveralOps ==
    {WithValue("add", UnderData(<<<<"c">>>>), Num(2)),
     WithValue("replace", UnderData(<<<<"a">>>>), Num(2)),
     WithValue("replace", UnderData(<<<<"c">>>>), Num(2)),
     WithValue("test", UnderData(<<<<"a">>>>), Num(2)),
     Remove(UnderData(<<<<"a">>>>)),
     Remove(UnderData(<<<<"c">>>>)),
     WithFrom("move", UnderData(<<<<"a">>>>), UnderData(<<<<"a">>, <<"b">>>>)),
     Remove(DataKey)}

ModifyPatches ==
    {<<>>} \cup {<<o>> : o \in ModifyOps}
    \cup UNION {[1..n -> ModifySeveralOps] : n \in 2..MaxOps}

Jsons ==
    {Preset(Obj({}), d) : d \in Documents}
    \cup { Obj({<<MetadataKey, Obj({<<Key("a"), Num(1)>>})>>}),
           Obj({<<MetadataKey, Obj({})>>, <<DataKey, Num(1)>>, <<Key("c"), Num(2)>>}),
           Obj({<<DataKey, Obj({})>>}),
           Preset(Arr(<<>>), Obj({})),
           Preset(Null, Obj({})),
           Arr(<<>>) }

Instructions == {<<>>, <<" ">>, <<"u", "p">>, <<" ", "u", "p", " ">>}

Replies == {"notOk", "empty", "prose", "garbled", "array"}

InitModify ==
    /\ \E j \in Jsons, i \in Instructions : request = [json |-> j, instruction |-> i]
    /\ \E k \in BOOLEAN, r \in Replies, p \in ModifyPatches :
            /\ r # "array" => p = <<>>
            /\ env = [apiKey |-> k, reply |-> r, content |-> p]
    /\ call = NewCall("handler", Undefined, <<>>, "parse")
    /\ stage = 1
    /\ first = NoFirst
    /\ response = Idle
    /\ others = <<>>
    /\ ui = InitialUi

\* lines 148-152: the body does not parse
\* line 150: res.status(400).json({ error: parsed.error.flatten() })
bodyRejected == [Idle EXCEPT !.status = 400, !.error = "body", !.keys = {"error"}]

RejectBody ==
    /\ call.pc = "parse"
    /\ ~modifySchema(request)
    /\ response' = bodyRejected
    /\ call' = [call EXCEPT !.pc = "sent"]
    /\ UNCHANGED <<stage, first, request, env, others, ui>>

\* line 154
AcceptBody ==
    /\ call.pc = "parse"
    /\ modifySchema(request)
    /\ call' = NewCall("handler", parsedJson(request.json), <<>>, "propose")
    /\ UNCHANGED <<stage, first, request, env, response, others, ui>>

proposed(c, patch) == [c EXCEPT !.patch = patch, !.log = Append(@, "propose"), !.pc = "structure"]

\* line 155: the proposer returned
ProposeReturn ==
    /\ call.pc = "propose"
    /\ ~proposePatch(request.instruction, env).threw
    /\ call' = proposed(call, proposePatch(request.instruction, env).patch)
    /\ UNCHANGED <<stage, first, request, env, response, others, ui>>

\* line 208: res.status(500).json({ error: 'Internal server error.' })
proposerFailed ==
    [Idle EXCEPT !.status = 500, !.error = "Internal server error.", !.keys = {"error"}]

\* line 155: the proposer threw; asyncHandler passes the error to the error
\* middleware (lines 197-209)
ProposeThrow ==
    /\ call.pc = "propose"
    /\ proposePatch(request.instruction, env).threw
    /\ call' = [call EXCEPT !.log = Append(@, "propose"), !.pc = "sent"]
    /\ response' = proposerFailed
    /\ UNCHANGED <<stage, first, request, env, others, ui>>

\* lines 160-161: the diff of json and patchedJson, and
\* res.json({ patch: validatedPatch, patchedJson, diff })
patchedResponse(c) ==
    [ status |-> 200,
      patch |-> c.patch,
      patchedJson |-> c.result.doc,
      diffIsNull |-> (c.document = c.result.doc),
      error |-> "",
      keys |-> {"patch", "patchedJson", "diff"} ]

RespondPatched ==
    /\ call.pc = "respond"
    /\ response' = patchedResponse(call)
    /\ call' = [call EXCEPT !.pc = "sent"]
    /\ UNCHANGED <<stage, first, request, env, others, ui>>

\* the message of the error the try block threw
caughtMessage(c) ==
    IF c.structure # "ok" THEN c.structure
    ELSE IF c.semantics.err # NoError THEN c.semantics.err
    ELSE c.result.failure.err

\* lines 164-167: res.status(400).json({ error, patch })
invalidResponse(c) ==
    [Idle EXCEPT !.status = 400, !.error = caughtMessage(c), !.patch = c.patch,
                 !.keys = {"error", "patch"}]

\* lines 162-168: the catch
RespondInvalid ==
    /\ call.pc = "caught"
    /\ response' = invalidResponse(call)
    /\ call' = [call EXCEPT !.pc = "sent"]
    /\ UNCHANGED <<stage, first, request, env, others, ui>>

NextModify ==
    \/ RejectBody
    \/ AcceptBody
    \/ ProposeReturn
    \/ ProposeThrow
    \/ ValidateStructure
    \/ ValidateSemantics
    \/ ApplyClone
    \/ ApplyRecheck
    \/ ApplyOperation
    \/ ApplyReturn
    \/ RespondPatched
    \/ RespondInvalid

SpecModify == InitModify /\ [][NextModify]_vars

\* --------------------------------------- several requests on one server

\* one request of the server: the locals of its handler invocation and its
\* response
Context(c, req, e, res) == [call |-> c, request |-> req, env |-> e, response |-> res]

ConcurrentJsons ==
    { Preset(Obj({}), Obj({<<Key("a"), Obj({<<Key("b"), Num(1)>>})>>})),
      Preset(Obj({}), Obj({<<Key("a"), Arr(<<Num(1), Num(2)>>)>>, <<Key("b"), Null>>})),
      Preset(Obj({<<Key("a"), Num(1)>>}), Obj({<<Key("a"), Str(1)>>})),
      Obj({<<DataKey, Obj({})>>}) }

ConcurrentPatches ==
    { <<>>,
      <<WithValue("add", UnderData(<<<<"c">>>>), Num(2))>>,
      <<WithValue("replace", UnderData(<<<<"a">>>>), Obj({}))>>,
      <<Remove(UnderData(<<<<"a">>>>))>>,
      <<WithFrom("move", UnderData(<<<<"a">>>>), UnderData(<<<<"c">>>>)),
        WithValue("test", UnderData(<<<<"c">>>>), Num(2))>>,
      <<Remove(DataKey)>> }

ConcurrentRequests ==
    {[json |-> j, instruction |-> i] : j \in ConcurrentJsons, i \in {<<" ">>, <<"u", "p">>}}

ConcurrentEnvs(k) ==
    {[apiKey |-> k, reply |-> "array", content |-> p] : p \in ConcurrentPatches}
    \cup {[apiKey |-> k, reply |-> "notOk", content |-> <<>>]}

Arrived(req, e) == Context(NewCall("handler", Undefined, <<>>, "parse"), req, e, Idle)

\* two requests arrive; process.env is one for the process, the model's reply
\* is the request's own
InitConcurrent ==
    /\ \E k \in BOOLEAN :
        \E r1, r2 \in ConcurrentRequests, e1, e2 \in ConcurrentEnvs(k) :
            /\ request = r1
            /\ env = e1
            /\ others = <<Arrived(r2, e2)>>
    /\ call = NewCall("handler", Undefined, <<>>, "parse")
    /\ response = Idle
    /\ stage = 1
    /\ first = NoFirst
    /\ ui = InitialUi

\* a handler that keeps json in a variable of the module
resumedCallShared(own, running) ==
    IF own.document = Undefined \/ running.document = Undefined THEN own
    ELSE [own EXCEPT !.document = running.document]

\* lines 147-155: json, instruction and patch are constants of the invocation of
\* the async handler, so an invocation that runs again continues with its own
\* locals whatever invocation `running` ran in between
resumedCall(own, running) == own

\* The event loop runs one invocation at a time and leaves it only where it
\* has not started, awaits the proposer (line 155) or has responded; then any
\* other invocation that has not responded runs.
Switch ==
    /\ call.pc \in {"parse", "propose", "sent"}
    /\ \E i \in 1..Len(others) :
        /\ others[i].call.pc # "sent"
        /\ call' = resumedCall(others[i].call, call)
        /\ request' = others[i].request
        /\ env' = others[i].env
        /\ response' = others[i].response
        /\ others' = [others EXCEPT ![i] = Context(call, request, env, response)]
    /\ UNCHANGED <<stage, first, ui>>

NextConcurrent ==
    \/ Switch
    \/ RejectBody
    \/ AcceptBody
    \/ ProposeReturn
    \/ ProposeThrow
    \/ ValidateStructure
    \/ ValidateSemantics
    \/ ApplyClone
    \/ ApplyRecheck
    \/ ApplyOperation
    \/ ApplyReturn
    \/ RespondPatched
    \/ RespondInvalid

SpecConcurrent == InitConcurrent /\ [][NextConcurrent]_vars

\* the engine calls of a handler run to their end without interruption
RECURSIVE runCall(_)
runCall(c) ==
    CASE c.pc = "structure" -> runCall(structureStep(c))
      [] c.pc = "semantics" -> runCall(semanticsStep(c))
      [] c.pc = "apply" -> runCall(cloneStep(c))
      [] c.pc = "recheck" -> runCall(recheckStep(c))
      [] c.pc = "applyPatch" /\ c.applied < Len(c.patch) -> runCall(operationStep(c))
      [] c.pc = "applyPatch" /\ c.applied = Len(c.patch) -> runCall(returnStep(c))
      [] OTHER -> c

SoloEnded(c) == IF c.pc = "respond" THEN patchedResponse(c) ELSE invalidResponse(c)

SoloProposed(req, p) ==
    IF p.threw THEN proposerFailed
    ELSE SoloEnded(runCall(proposed(
            NewCall("handler", parsedJson(req.json), <<>>, "propose"), p.patch)))

\* the response to a request that is the only one of the server
SoloResponse(req, e) ==
    IF ~modifySchema(req) THEN bodyRejected
    ELSE SoloProposed(req, proposePatch(req.instruction, e))

\* ------------------------------------------- the editor UI, src/src/App.tsx

Status(type, text) == [type |-> type, text |-> text]

\* JSON.parse refuses the text
UnparsableText == [valid |-> FALSE, value |-> Undefined]

\* lines 17-21: a truthy object with the keys metadata and data; null, scalars
\* and arrays have neither key
isPresetJson(value) ==
    /\ value.k = "object"
    /\ hasOwn(value, MetadataKey)
    /\ hasOwn(value, DataKey)

\* the disabled attributes of the controls (lines 162, 195, 198, 201); the
\* JsonEditor of line 183 has none
uploadDisabled(u) == u.isBusy

instructionDisabled(u) == u.isBusy

modifyDisabled(u) == u.isBusy

downloadDisabled(u) == u.isBusy \/ isFalsy(u.presetJson)

\* the handler is suspended at its await with the values it holds
awaiting(kind, u) ==
    [NoFlight EXCEPT !.kind = kind, !.original = u.presetJson,
                     !.instruction = u.instruction, !.filename = u.filename]

\* lines 47-56
uploadStarted(u) ==
    [u EXCEPT !.isBusy = TRUE,
              !.status = Status("info", "Uploading and unpacking preset"),
              !.editorError = "",
              !.patch = <<>>,
              !.patchIsNull = TRUE,
              !.diffIsNull = TRUE,
              !.lastOriginalJson = Null,
              !.lastPatchedJson = Null,
              !.flight = awaiting("upload", u)]

\* lines 41-56
handleFileChange(u, file) == IF file = "none" THEN u ELSE uploadStarted(u)

\* lines 70-83
handleEditorChange(u, value) ==
    IF ~value.valid
    THEN [u EXCEPT !.editorValue = value, !.editorError = "SyntaxError"]
    ELSE IF isPresetJson(value.value)
    THEN [u EXCEPT !.editorValue = value, !.presetJson = value.value, !.editorError = ""]
    ELSE [u EXCEPT !.editorValue = value,
                   !.editorError = "Root JSON must contain metadata and data keys"]

\* lines 85-87
handleInstructionChange(u, value) == [u EXCEPT !.instruction = value]

\* lines 89-110
handleModify(u) ==
    IF isFalsy(u.presetJson)
    THEN [u EXCEPT !.status = Status("error", "Upload a preset and ensure the JSON is valid")]
    ELSE IF u.editorError # ""
    THEN [u EXCEPT !.status = Status("error", "Fix JSON errors before applying instructions")]
    ELSE IF trim(u.instruction) = <<>>
    THEN [u EXCEPT !.status = Status("error", "Enter an instruction to modify the preset")]
    ELSE [u EXCEPT !.isBusy = TRUE,
                   !.status = Status("info", "Requesting patch proposal"),
                   !.flight = awaiting("modify", u)]

\* lines 126-136
handleDownload(u) ==
    IF isFalsy(u.presetJson)
    THEN [u EXCEPT !.status = Status("error", "Nothing to download yet")]
    ELSE [u EXCEPT !.isBusy = TRUE,
                   !.status = Status("info", "Packing preset"),
                   !.flight = awaiting("download", u)]

\* the awaited promise settles
fulfilled(f, reply) == [f EXCEPT !.settled = "fulfilled", !.reply = reply]

rejected(f, message) == [f EXCEPT !.settled = "rejected", !.message = message]

\* api.ts lines 18-24: a response that is not ok is thrown with its text
handleResponse(f, res) ==
    IF res.status = 200 THEN fulfilled(f, res) ELSE rejected(f, res.error)

\* api.ts lines 36-46 and the /api/modify handler answering the posted body
modifyPreset(f, e) ==
    handleResponse(f, SoloResponse([json |-> f.original, instruction |-> f.instruction], e))

\* a finally that leaves the flag set
finallyStillBusy(u) == [u EXCEPT !.flight = NoFlight]

\* lines 65-67, 121-123, 148-150: finally { setIsBusy(false) }
finally(u) == [u EXCEPT !.isBusy = FALSE, !.flight = NoFlight]

\* lines 62-64, 118-120, 145-147
catch(u, f) == [u EXCEPT !.status = Status("error", f.message)]

\* lines 57-61
uploadSucceeded(u, f) ==
    [u EXCEPT !.filename = "preset.SerumPreset",
              !.presetJson = f.reply.patchedJson,
              !.editorValue = JSONstringify(f.reply.patchedJson),
              !.status = Status("success", "Preset unpacked successfully")]

\* lines 111-117
modifySucceeded(u, f) ==
    [u EXCEPT !.patch = f.reply.patch,
              !.patchIsNull = FALSE,
              !.diffIsNull = f.reply.diffIsNull,
              !.lastOriginalJson = f.original,
              !.lastPatchedJson = f.reply.patchedJson,
              !.presetJson = f.reply.patchedJson,
              !.editorValue = JSONstringify(f.reply.patchedJson),
              !.status = Status("success", "Patch applied successfully")]

\* lines 137-144
downloadSucceeded(u, f) == [u EXCEPT !.status = Status("success", "Download ready")]

\* the rest of the handler once the awaited promise has settled
resumed(u, f, succeeded) ==
    finally(IF f.settled = "fulfilled" THEN succeeded ELSE catch(u, f))

\* what the user and the servers can do
UiPresets ==
    { Preset(Obj({}), Obj({<<Key("a"), Num(1)>>})),
      Preset(Obj({}), Obj({<<Key("a"), Num(3)>>})) }

UiTexts ==
    {JSONstringify(p) : p \in UiPresets} \cup {JSONstringify(Obj({})), UnparsableText}

UiInstructions == {<<>>, <<" ">>, <<"u", "p">>}

UiPatches ==
    { <<WithValue("replace", UnderData(<<<<"a">>>>), Num(2))>>,
      <<Remove(UnderData(<<<<"b">>>>))>> }

UiEnvs ==
    {[apiKey |-> TRUE, reply |-> "array", content |-> p] : p \in UiPatches}
    \cup {[apiKey |-> TRUE, reply |-> "notOk", content |-> <<>>]}

UiFiles == {"none", "file"}

InitEditor ==
    /\ ui = InitialUi
    /\ call = NewCall("handler", Undefined, <<>>, "idle")
    /\ stage = 1
    /\ first = NoFirst
    /\ request = NoRequest
    /\ env = NoEnv
    /\ response = Idle
    /\ others = <<>>

\* line 162: the file input changes
FileChange ==
    /\ ~uploadDisabled(ui)
    /\ \E file \in UiFiles : ui' = handleFileChange(ui, file)
    /\ UNCHANGED <<call, stage, first, request, env, response, others>>

\* line 183: the user changes the text of the editor
EditorChange ==
    /\ \E value \in UiTexts :
        /\ value # ui.editorValue
        /\ ui' = handleEditorChange(ui, value)
    /\ UNCHANGED <<call, stage, first, request, env, response, others>>

\* lines 190-196
InstructionChange ==
    /\ ~instructionDisabled(ui)
    /\ \E value \in UiInstructions :
        /\ value # ui.instruction
        /\ ui' = handleInstructionChange(ui, value)
    /\ UNCHANGED <<call, stage, first, request, env, response, others>>

\* line 198: Generate patch is clicked
Modify ==
    /\ ~modifyDisabled(ui)
    /\ ui' = handleModify(ui)
    /\ UNCHANGED <<call, stage, first, request, env, response, others>>

\* line 201: Download is clicked
Download ==
    /\ ~downloadDisabled(ui)
    /\ ui' = handleDownload(ui)
    /\ UNCHANGED <<call, stage, first, request, env, response, others>>

\* line 56: the promise of uploadPreset settles; /api/unpack answers with the
\* preset of the file or with an error
UploadSettles ==
    /\ ui.flight.kind = "upload"
    /\ ui.flight.settled = "pending"
    /\ \/ \E p \in UiPresets :
            ui' = [ui EXCEPT !.flight = fulfilled(@, [Idle EXCEPT !.status = 200,
                                                                  !.patchedJson = p])]
       \/ ui' = [ui EXCEPT !.flight = rejected(@, "Failed to unpack preset")]
    /\ UNCHANGED <<call, stage, first, request, env, response, others>>

\* line 110: the promise of modifyPreset settles
ModifySettles ==
    /\ ui.flight.kind = "modify"
    /\ ui.flight.settled = "pending"
    /\ \/ \E e \in UiEnvs : ui' = [ui EXCEPT !.flight = modifyPreset(@, e)]
       \/ ui' = [ui EXCEPT !.flight = rejected(@, "Failed to fetch")]
    /\ UNCHANGED <<call, stage, first, request, env, response, others>>

\* line 136: the promise of packPreset settles
DownloadSettles ==
    /\ ui.flight.kind = "download"
    /\ ui.flight.settled = "pending"
    /\ \/ ui' = [ui EXCEPT !.flight = fulfilled(@, Idle)]
       \/ ui' = [ui EXCEPT !.flight = rejected(@, "Failed to pack preset")]
    /\ UNCHANGED <<call, stage, first, request, env, response, others>>

\* lines 57-67
UploadResumes ==
    /\ ui.flight.kind = "upload"
    /\ ui.flight.settled # "pending"
    /\ ui' = resumed(ui, ui.flight, uploadSucceeded(ui, ui.flight))
    /\ UNCHANGED <<call, stage, first, request, env, response, others>>

\* lines 111-123
ModifyResumes ==
    /\ ui.flight.kind = "modify"
    /\ ui.flight.settled # "pending"
    /\ ui' = resumed(ui, ui.flight, modifySucceeded(ui, ui.flight))
    /\ UNCHANGED <<call, stage, first, request, env, response, others>>

\* lines 137-150
DownloadResumes ==
    /\ ui.flight.kind = "download"
    /\ ui.flight.settled # "pending"
    /\ ui' = resumed(ui, ui.flight, downloadSucceeded(ui, ui.flight))
    /\ UNCHANGED <<call, stage, first, request, env, response, others>>

NextEditor ==
    \/ FileChange
    \/ EditorChange
    \/ InstructionChange
    \/ Modify
    \/ Download
    \/ UploadSettles
    \/ ModifySettles
    \/ DownloadSettles
    \/ UploadResumes
    \/ ModifyResumes
    \/ DownloadResumes

SpecEditor == InitEditor /\ [][NextEditor]_vars

\* the event loop runs the continuation of an await whose promise has settled
SpecEditorLive ==
    /\ SpecEditor
    /\ WF_vars(UploadResumes)
    /\ WF_vars(ModifyResumes)
    /\ WF_vars(DownloadResumes)

\* ------------------------------------------------ the claims' vocabulary

\* The reference reading of a pointer (spec 4.1, RFC 6901), independent of the
\* code: one segment at a time through an existing key of a map or an in-range
\* index of a sequence.
SegmentsOf(pointer) == Tail(split(pointer))

IsPointer(s) == s = <<>> \/ (s[1] = "/" /\ matchTokens(s, 2))

RECURSIVE ValueAtSegments(_, _)
ValueAtSegments(v, segs) ==
    IF Len(segs) = 0 THEN v
    ELSE IF v.k = "object" /\ hasOwn(v, unescapePathComponent(segs[1]))
    THEN ValueAtSegments(getProp(v, unescapePathComponent(segs[1])), Tail(segs))
    ELSE IF v.k = "array" /\ IsArrayIndexString(segs[1]) /\ toInt(segs[1]) < Len(v.a)
    THEN ValueAtSegments(v.a[toInt(segs[1]) + 1], Tail(segs))
    ELSE Undefined

\* the value the pointer resolves to, Undefined when it does not resolve
ValueAt(d, pointer) ==
    IF IsPointer(pointer) THEN ValueAtSegments(d, SegmentsOf(pointer)) ELSE Undefined

Resolves(d, pointer) == ValueAt(d, pointer) # Undefined

ParentOf(pointer) ==
    pointerOf(SubSeq(SegmentsOf(pointer), 1, Len(SegmentsOf(pointer)) - 1))

LastOf(pointer) == SegmentsOf(pointer)[Len(SegmentsOf(pointer))]

\* d with the value at an existing location replaced, every other location kept
RECURSIVE PutAtSegments(_, _, _)
PutAtSegments(v, segs, x) ==
    IF Len(segs) = 0 THEN x
    ELSE IF v.k = "object"
    THEN setProp(v, unescapePathComponent(segs[1]),
                 PutAtSegments(getProp(v, unescapePathComponent(segs[1])), Tail(segs), x))
    ELSE [v EXCEPT !.a[toInt(segs[1]) + 1] =
                        PutAtSegments(v.a[toInt(segs[1]) + 1], Tail(segs), x)]

PutAt(d, pointer, x) == PutAtSegments(d, SegmentsOf(pointer), x)

\* the positions of the caller
SemanticsKnown == call.structure = "ok" /\ call.pc \notin {"structure", "semantics"}

ApplyEnded == call.structure = "ok" /\ call.pc = "done"

OneOp(kind) == Len(call.patch) = 1 /\ call.patch[1].op = kind

\* ---------------------------------------------------------------- claims

\* C1: applyPatchWithValidation(D, P) leaves the caller's document D deep-equal
\* to its value before the call, at every point of the call and whether it
\* returns a document or throws.
C1_DocumentNeverMutated == call.workingRef # "none" => call.document = call.snapshot

\* C1 witness: a call returned a document that differs from D.
C1_Witness ==
    /\ ApplyEnded
    /\ call.result.kind = "document"
    /\ call.result.doc # call.snapshot

C3_MissingPathIsNotFound ==
    ( /\ SemanticsKnown
      /\ Len(call.patch) >= 1
      /\ call.patch[1].op \in {"replace", "remove", "test"}
      /\ ~Resolves(call.snapshot, call.patch[1].path) )
    => call.semantics.err = "PathNotFound"

\* operation i is a replace at an existing path and no earlier operation failed
ReplaceReached(i) ==
    /\ call.patch[i].op = "replace"
    /\ Resolves(call.snapshot, call.patch[i].path)
    /\ call.semantics.err = NoError \/ call.semantics.at >= i

KindOf(v) == v.k

\* C4 (the claim as stated): a replace at an existing path fails with a type
\* mismatch whenever the kind of the current value differs from the kind of the
\* proposed value, and never when they are equal.
C4_AnyKindDifference ==
    SemanticsKnown =>
        \A i \in 1..Len(call.patch) :
            ReplaceReached(i) =>
                ( KindOf(ValueAt(call.snapshot, call.patch[i].path)) # KindOf(call.patch[i].value)
                  <=> (call.semantics.err = "TypeMismatch" /\ call.semantics.at = i) )

\* C4 (amended): a replace at an existing path fails with a type mismatch
\* whenever the current and the proposed value are both non-null and their
\* kinds differ, and never when the kinds are equal.
C4_NonNullKindDifference ==
    SemanticsKnown =>
        \A i \in 1..Len(call.patch) :
            ReplaceReached(i) =>
                /\ ( /\ KindOf(ValueAt(call.snapshot, call.patch[i].path)) # "null"
                     /\ KindOf(call.patch[i].value) # "null"
                     /\ KindOf(ValueAt(call.snapshot, call.patch[i].path))
                            # KindOf(call.patch[i].value) )
                   => (call.semantics.err = "TypeMismatch" /\ call.semantics.at = i)
                /\ KindOf(ValueAt(call.snapshot, call.patch[i].path)) = KindOf(call.patch[i].value)
                   => ~(call.semantics.err = "TypeMismatch" /\ call.semantics.at = i)

\* C4 witness: a replace of an array by an object was refused as a type mismatch.
C4_Witness ==
    /\ SemanticsKnown
    /\ OneOp("replace")
    /\ KindOf(ValueAt(call.snapshot, call.patch[1].path)) = "array"
    /\ KindOf(call.patch[1].value) = "object"
    /\ call.semantics.err = "TypeMismatch"
    /\ call.semantics.expected = "array"
    /\ call.semantics.received = "object"

\* a string that is no JSON Pointer: no leading slash, or a '~' that is not
\* followed by '0' or '1'
Malformed(s) == ~IsPointer(s)

StructureKnown == call.structure # "none"

\* C5 (the claim as stated): validatePatchStructure rejects every patch that
\* holds an operation, of any kind, whose path or from is malformed.
C5_AnyFromRejected ==
    ( /\ StructureKnown
      /\ \E i \in 1..Len(call.patch) :
            \/ Malformed(call.patch[i].path)
            \/ call.patch[i].hasFrom /\ Malformed(call.patch[i].from) )
    => call.structure = "ZodError"

\* C5 (amended): validatePatchStructure rejects every patch that holds an
\* operation of any kind whose path is malformed, or a move or copy whose from
\* is malformed; the verdict is a function of the patch alone.
C5_PathOrMoveFromRejected ==
    ( /\ StructureKnown
      /\ \E i \in 1..Len(call.patch) :
            \/ Malformed(call.patch[i].path)
            \/ /\ call.patch[i].op \in {"move", "copy"}
               /\ call.patch[i].hasFrom
               /\ Malformed(call.patch[i].from) )
    => call.structure = "ZodError"

\* C5 witness: a move with a well-formed path and a malformed from was rejected.
C5_Witness ==
    /\ StructureKnown
    /\ OneOp("move")
    /\ ~Malformed(call.patch[1].path)
    /\ call.patch[1].hasFrom
    /\ Malformed(call.patch[1].from)
    /\ call.structure = "ZodError"

\* C6: one replace at an existing path with a value of the same kind succeeds,
\* and the document returned has the proposed value at the path and equals D at
\* every other location.
C6_ReplaceSameKind ==
    ( /\ ApplyEnded
      /\ OneOp("replace")
      /\ Resolves(call.snapshot, call.patch[1].path)
      /\ KindOf(ValueAt(call.snapshot, call.patch[1].path)) = KindOf(call.patch[1].value) )
    => /\ call.result.kind = "document"
       /\ ValueAt(call.result.doc, call.patch[1].path) = call.patch[1].value
       /\ call.result.doc = PutAt(call.snapshot, call.patch[1].path, call.patch[1].value)

\* C6 witness: such a replace returned a document that differs from D.
C6_Witness ==
    /\ ApplyEnded
    /\ OneOp("replace")
    /\ Resolves(call.snapshot, call.patch[1].path)
    /\ KindOf(ValueAt(call.snapshot, call.patch[1].path)) = KindOf(call.patch[1].value)
    /\ call.result.kind = "document"
    /\ call.result.doc # call.snapshot

Ended == call.pc = "done"

Returned == Ended /\ call.structure = "ok" /\ call.result.kind = "document"

\* every operation is an add at a path that does not exist in d
FreshAdds(d, adds) ==
    /\ IsAdds(adds)
    /\ \A i \in 1..Len(adds) : ~Resolves(d, adds[i].path)

\* the adds before the i-th that have the parent of the i-th
EarlierSiblings(adds, i) ==
    {j \in 1..(i - 1) : ParentOf(adds[j].path) = ParentOf(adds[i].path)}

\* the i-th add puts a new key in a map of d, or appends to a sequence of d
AddsMember(d, adds, i) ==
    /\ IsPointer(adds[i].path)
    /\ Len(adds[i].path) >= 1
    /\ \/ KindOf(ValueAt(d, ParentOf(adds[i].path))) = "object"
       \/ /\ KindOf(ValueAt(d, ParentOf(adds[i].path))) = "array"
          /\ IsArrayIndexString(LastOf(adds[i].path))
          /\ toInt(LastOf(adds[i].path))
                = Len(ValueAt(d, ParentOf(adds[i].path)).a)
                    + Cardinality(EarlierSiblings(adds, i))

Addable(d, adds) ==
    /\ FreshAdds(d, adds)
    /\ \A i, j \in 1..Len(adds) : i # j => adds[i].path # adds[j].path
    /\ \A i \in 1..Len(adds) : AddsMember(d, adds, i)

\* C7 (the claim as stated): after adds at paths that do not exist in D were
\* applied, applying the removes at the same paths in reverse order returns a
\* document deep-equal to D.
C7_AnyFreshAdds ==
    ( /\ Ended
      /\ stage = 2
      /\ FreshAdds(first.document, first.patch) )
    => Returned /\ call.result.doc = first.document

\* C7 (amended): adds at pairwise distinct paths that do not exist in D, each
\* a new key of a map of D or the next index of a sequence of D, succeed, and
\* the removes at the same paths in reverse order then return a document
\* deep-equal to D.
C7_DistinctAddsUnderExistingParents ==
    /\ ( /\ Ended
         /\ stage = 1
         /\ Addable(call.snapshot, call.patch) )
       => Returned
    /\ ( /\ Ended
         /\ stage = 2
         /\ Addable(first.document, first.patch) )
       => Returned /\ call.result.doc = first.document

\* C7 witness: two such adds, one of them an append, were undone by the removes.
C7_Witness ==
    /\ Returned
    /\ stage = 2
    /\ Addable(first.document, first.patch)
    /\ Len(first.patch) = 2
    /\ \E i \in 1..2 : KindOf(ValueAt(first.document, ParentOf(first.patch[i].path))) = "array"
    /\ call.snapshot # first.document
    /\ call.result.doc = first.document

IsPrefixOf(s, t) == Len(s) <= Len(t) /\ SubSeq(t, 1, Len(s)) = s

\* a lies in a map of d, b is a new key of a map of d outside a
Movable(d, a, b) ==
    /\ Len(a) >= 1 /\ Len(b) >= 1
    /\ IsPointer(a) /\ IsPointer(b)
    /\ Resolves(d, a)
    /\ KindOf(ValueAt(d, ParentOf(a))) = "object"
    /\ ~Resolves(d, b)
    /\ KindOf(ValueAt(d, ParentOf(b))) = "object"
    /\ ~IsPrefixOf(SegmentsOf(a), SegmentsOf(b))

\* C8 (the claim as stated): after move(from=A, path=B) with A existing in D
\* was applied, applying move(from=B, path=A) returns a document deep-equal to D.
C8_AnyMove ==
    ( /\ Ended
      /\ stage = 2
      /\ IsMove(first.patch)
      /\ Resolves(first.document, first.patch[1].from) )
    => Returned /\ call.result.doc = first.document

\* C8 (amended): when A exists in D as a member of a map, B does not exist in
\* D, the parent of B is a map of D and B is not inside A, move(from=A, path=B)
\* succeeds and move(from=B, path=A) then returns a document deep-equal to D.
C8_MoveToFreshKey ==
    /\ ( /\ Ended
         /\ stage = 1
         /\ IsMove(call.patch)
         /\ call.patch[1].hasFrom
         /\ Movable(call.snapshot, call.patch[1].from, call.patch[1].path) )
       => Returned
    /\ ( /\ Ended
         /\ stage = 2
         /\ IsMove(first.patch)
         /\ Movable(first.document, first.patch[1].from, first.patch[1].path) )
       => Returned /\ call.result.doc = first.document

\* C8 witness: a value was moved to a new key and back.
C8_Witness ==
    /\ Returned
    /\ stage = 2
    /\ IsMove(first.patch)
    /\ Movable(first.document, first.patch[1].from, first.patch[1].path)
    /\ call.snapshot # first.document
    /\ ~Resolves(call.snapshot, first.patch[1].from)
    /\ call.result.doc = first.document

Responded == response.status # 0

\* C9: the empty patch passes validatePatchStructure and validatePatchSemantics,
\* applyPatchWithValidation returns a document deep-equal to D for it, and a
\* request for which the proposer returned the empty patch is answered with a
\* success response that carries the unchanged document.
C9_EmptyPatchIsNoOp ==
    ( /\ call.patch = <<>>
      /\ call.log # <<>> )
    => /\ call.structure \in {"none", "ok"}
       /\ call.semantics = NoFailure
       /\ call.result.kind # "error"
       /\ call.result.kind = "document" => call.result.doc = call.snapshot
       /\ call.pc # "caught"
       /\ (Responded /\ call.structure # "none") =>
                /\ response.status = 200
                /\ response.patch = <<>>
                /\ response.patchedJson = call.snapshot
                /\ response.diffIsNull

\* C9 witness: the model answered with an empty array and the request was
\* answered with success and the unchanged document.
C9_Witness ==
    /\ response.status = 200
    /\ call.patch = <<>>
    /\ env.apiKey
    /\ env.reply = "array"
    /\ trim(request.instruction) # <<>>
    /\ call.log = <<"propose", "structure", "semantics", "apply">>
    /\ response.patchedJson = call.snapshot

HandlerOrder == <<"propose", "structure", "semantics", "apply">>

\* C10: the handler starts the proposer, the structural validation, the
\* semantic validation and the apply in this order; it starts no semantic
\* validation after a failed structural validation and no apply after a failed
\* validation; it sends a patched document only after all three succeeded.
C10_HandlerOrder ==
    /\ IsPrefixOf(call.log, HandlerOrder)
    /\ call.structure = "ZodError" => call.log = <<"propose", "structure">>
    /\ call.semantics.err # NoError => call.log = <<"propose", "structure", "semantics">>
    /\ response.status = 200 =>
            /\ call.log = HandlerOrder
            /\ call.structure = "ok"
            /\ call.semantics = NoFailure
            /\ call.result.kind = "document"
            /\ call.applied = Len(call.patch)
            /\ response.patchedJson = call.result.doc
    /\ response.patchedJson # Undefined => response.status = 200

\* C10 witness: a patch of two operations passed the three steps and the
\* patched document, which differs from the one posted, was sent.
C10_Witness ==
    /\ response.status = 200
    /\ Len(call.patch) = 2
    /\ call.log = HandlerOrder
    /\ response.patchedJson # call.snapshot
    /\ ~response.diffIsNull

\* C11 (the claim as stated, refuted by the code): a request with a valid
\* body and a non-blank instruction, handled while OPENAI_API_KEY is not set, is
\* answered with success, an empty patch and a message about the disabled
\* proposer.
C11_DisabledProposerMessage ==
    ( /\ Responded
      /\ modifySchema(request)
      /\ trim(request.instruction) # <<>>
      /\ ~env.apiKey )
    => /\ response.status = 200
       /\ response.patch = <<>>
       /\ "message" \in response.keys

\* C12: when requests with their own documents interleave at the await on the
\* proposer, the response to each (status, patch, patched document, diff or
\* error) is the response it gets when it is the only request.
C12_ResponsesAsIfAlone ==
    /\ Responded => response = SoloResponse(request, env)
    /\ \A i \in 1..Len(others) :
            others[i].response.status # 0
                => others[i].response = SoloResponse(others[i].request, others[i].env)

\* C12 witness: a request was answered with its patched document while another
\* request, with another document, had been accepted and awaited its proposer.
C12_Witness ==
    /\ response.status = 200
    /\ response.patchedJson # call.snapshot
    /\ Len(others) = 1
    /\ others[1].call.pc = "propose"
    /\ others[1].call.document # call.snapshot
    /\ others[1].env.content # env.content

\* C13 (the claim as stated, refuted by the code): pathExists(D, p), as the
\* verdict of validatePatchSemantics on a single remove at p shows it, is true
\* exactly when p resolves in D, and a pointer that does not resolve makes it
\* false without any other error.
C13_PathExistsIsResolves ==
    ( /\ SemanticsKnown
      /\ OneOp("remove") )
    => /\ call.semantics.err \in {NoError, "PathNotFound"}
       /\ call.semantics.err = NoError <=> Resolves(call.snapshot, call.patch[1].path)

\* C14 (the claim as stated, refuted by the code): validatePatchSemantics
\* fails a single add with the parent-missing error exactly when its path has
\* two or more segments and the path without its last segment does not
\* resolve in D.
C14_ParentMissingIffNoParent ==
    ( /\ SemanticsKnown
      /\ OneOp("add") )
    => ( call.semantics.err = "ParentMissing"
         <=> /\ Len(SegmentsOf(call.patch[1].path)) >= 2
             /\ ~Resolves(call.snapshot, ParentOf(call.patch[1].path)) )

\* C15 (the claim as stated, refuted by the code): validatePatchSemantics
\* fails a single move or copy with the source-not-found error exactly when
\* its from pointer does not resolve in D.
C15_SourceNotFoundIffNoSource ==
    ( /\ SemanticsKnown
      /\ OneOp("move") \/ OneOp("copy") )
    => ( call.semantics.err = "SourceNotFound"
         <=> ~Resolves(call.snapshot, call.patch[1].from) )

MismatchAt(i) == call.semantics.err = "TypeMismatch" /\ call.semantics.at = i

\* C16: a replace at an existing path whose current value is null, or whose
\* proposed value is null, never fails with a type mismatch; a type mismatch
\* of a replace at an existing path names the kind of the current value as
\* expected and the kind of the proposed value as received.
C16_NullSkipsTypeCheck ==
    SemanticsKnown =>
        \A i \in 1..Len(call.patch) :
            ReplaceReached(i) =>
                /\ ( \/ KindOf(ValueAt(call.snapshot, call.patch[i].path)) = "null"
                     \/ KindOf(call.patch[i].value) = "null" )
                   => ~MismatchAt(i)
                /\ MismatchAt(i) =>
                      /\ call.semantics.expected
                            = KindOf(ValueAt(call.snapshot, call.patch[i].path))
                      /\ call.semantics.received = KindOf(call.patch[i].value)
                      /\ call.semantics.expected # call.semantics.received

\* C16 witness: a replace of null by an object passed the semantic validation.
C16_Witness ==
    /\ SemanticsKnown
    /\ OneOp("replace")
    /\ Resolves(call.snapshot, call.patch[1].path)
    /\ KindOf(ValueAt(call.snapshot, call.patch[1].path)) = "null"
    /\ KindOf(call.patch[1].value) = "object"
    /\ call.semantics = NoFailure

\* an operation that is well-formed when every string of the pointer
\* grammar, the empty one included, counts as a pointer
WellFormed(op) ==
    /\ op.op \in OperationKinds
    /\ IsPointer(op.path)
    /\ op.op \in {"add", "replace", "test"} => op.hasValue
    /\ op.op \in {"move", "copy"} => op.hasFrom /\ IsPointer(op.from)

\* C17 (the claim as stated, refuted by the code): validatePatchStructure
\* accepts every patch whose operations have as path, and as from on move and
\* copy, a string of the JSON-Pointer grammar, the empty string included.
C17_GrammarAccepted ==
    ( /\ StructureKnown
      /\ \A i \in 1..Len(call.patch) : WellFormed(call.patch[i]) )
    => call.structure = "ok"

NeedsValue(op) == op.op \in {"add", "replace", "test"}

\* C18: validatePatchStructure rejects every patch that holds an add, replace
\* or test without a value field, and accepts an add, replace or test at a
\* well-formed path whose value field is present and null.
C18_ValueFieldRequired ==
    StructureKnown =>
        /\ (\E i \in 1..Len(call.patch) : NeedsValue(call.patch[i]) /\ ~call.patch[i].hasValue)
                => call.structure = "ZodError"
        /\ ( /\ Len(call.patch) = 1
             /\ NeedsValue(call.patch[1])
             /\ call.patch[1].hasValue
             /\ call.patch[1].value = Null
             /\ IsPointer(call.patch[1].path)
             /\ call.patch[1].path # <<>> )
           => call.structure = "ok"

\* C18 witness: a test with the value null was accepted.
C18_Witness ==
    /\ StructureKnown
    /\ OneOp("test")
    /\ call.patch[1].hasValue
    /\ call.patch[1].value = Null
    /\ call.structure = "ok"

\* an add at a path that does not exist in d below a parent that does, then a
\* replace at the same path
AddThenReplace(d, patch) ==
    /\ Len(patch) = 2
    /\ patch[1].op = "add"
    /\ patch[2].op = "replace"
    /\ patch[2].path = patch[1].path
    /\ IsPointer(patch[1].path)
    /\ Len(patch[1].path) >= 1
    /\ ~Resolves(d, patch[1].path)
    /\ Resolves(d, ParentOf(patch[1].path))

\* C19 (the claim as stated, refuted by the code): validatePatchSemantics
\* rejects a patch that adds a field at a fresh path and then replaces that
\* path, because the replace targets a path that does not exist in D.
C19_AddThenReplaceNotFound ==
    ( /\ SemanticsKnown
      /\ AddThenReplace(call.snapshot, call.patch) )
    => /\ call.semantics.err = "PathNotFound"
       /\ call.semantics.at = 2

\* C20 (the claim as stated): for a patch that adds a field at a fresh path
\* below an existing parent and then replaces that path with a value of the
\* same kind, applyPatchWithValidation returns a document that holds the
\* replaced value.
C20_AddThenReplaceApplies ==
    ( /\ ApplyEnded
      /\ AddThenReplace(call.snapshot, call.patch)
      /\ KindOf(call.patch[1].value) = KindOf(call.patch[2].value) )
    => /\ call.result.kind = "document"
       /\ ValueAt(call.result.doc, call.patch[2].path) = call.patch[2].value

\* two adds at one path that does not exist in d, a new key of a map of d
AddTwice(d, patch) ==
    /\ Len(patch) = 2
    /\ patch[1].op = "add"
    /\ patch[2].op = "add"
    /\ patch[2].path = patch[1].path
    /\ IsPointer(patch[1].path)
    /\ Len(patch[1].path) >= 1
    /\ ~Resolves(d, patch[1].path)
    /\ KindOf(ValueAt(d, ParentOf(patch[1].path))) = "object"

\* C20 (amended): applyPatchWithValidation validates the whole patch against
\* the unchanged copy of D before it applies anything, and then applies the
\* operations left to right with cumulative effect: an add at a fresh path
\* followed by a replace of that path with a non-null value fails in that
\* validation, at the replace, with nothing applied and no document returned;
\* two adds at one fresh key of a map return a document holding the second
\* value.
C20_RecheckBeforeCumulativeApply ==
    ApplyEnded =>
        /\ ( /\ AddThenReplace(call.snapshot, call.patch)
             /\ KindOf(call.patch[2].value) # "null" )
           => /\ call.result.kind = "error"
              /\ call.result.failure.at = 2
              /\ call.applied = 0
              /\ call.workingDocument = call.snapshot
        /\ AddTwice(call.snapshot, call.patch)
           => /\ call.result.kind = "document"
              /\ call.applied = 2
              /\ ValueAt(call.result.doc, call.patch[2].path) = call.patch[2].value

\* C20 witness: an add of a number at a fresh key followed by a replace by a
\* number was refused at the replace before anything was applied.
C20_Witness ==
    /\ ApplyEnded
    /\ AddThenReplace(call.snapshot, call.patch)
    /\ KindOf(call.patch[1].value) = "number"
    /\ KindOf(call.patch[2].value) = "number"
    /\ KindOf(ValueAt(call.snapshot, ParentOf(call.patch[1].path))) = "object"
    /\ call.result.kind = "error"
    /\ call.result.failure.at = 2
    /\ call.applied = 0

\* ---- C21 ----
\* C21: when validatePatchSemantics(D, P) throws for a structurally valid patch,
\* applyPatchWithValidation(D, P) throws as well, with the same failure, and it
\* does so before any operation is applied: the working copy still equals D.
C21_ValidateThrowsThenApplyThrows ==
    (ApplyEnded /\ call.semantics.err # NoError) =>
        /\ call.result.kind = "error"
        /\ call.result.failure = call.semantics
        /\ call.applied = 0
        /\ call.workingDocument = call.snapshot

\* an apply that ended after the caller's validation threw at the second of
\* two operations
C21_Witness ==
    /\ ApplyEnded
    /\ Len(call.patch) = 2
    /\ call.semantics.err # NoError
    /\ call.semantics.at = 2
    /\ call.result.kind = "error"
    /\ call.workingRef = "clone"

\* ---- C22 ----
SemanticErrors == {"PathNotFound", "ParentMissing", "SourceNotFound", "TypeMismatch"}

\* what applyPatch throws for an operation the working copy cannot take
OperationErrors ==
    { "OPERATION_PATH_UNRESOLVABLE", "OPERATION_FROM_UNRESOLVABLE",
      "OPERATION_PATH_CANNOT_ADD", "OPERATION_PATH_ILLEGAL_ARRAY_INDEX",
      "OPERATION_VALUE_OUT_OF_BOUNDS", "TypeError" }

ApplyFailed == ApplyEnded /\ call.result.kind = "error"

FailedInRecheck ==
    /\ call.result.failure.err \in SemanticErrors
    /\ call.applied = 0
    /\ call.workingDocument = call.snapshot

FailedInTest ==
    /\ call.result.failure.err = "TEST_OPERATION_FAILED"
    /\ call.result.failure.at = call.applied + 1
    /\ call.patch[call.applied + 1].op = "test"

FailedInOperation ==
    /\ call.result.failure.err \in OperationErrors
    /\ call.result.failure.at = call.applied + 1

\* C22 as stated: every failure of applyPatchWithValidation is an error of the
\* re-check or a failed test operation discovered mid-apply.
C22_OnlyRecheckOrTestFailures == ApplyFailed => FailedInRecheck \/ FailedInTest

\* C22, amended: every failure of applyPatchWithValidation is an error of the
\* re-check, raised before any operation is applied, or an error applyPatch
\* raises at the operation where applying stops: a failed test, or an
\* operation the working copy as it stands at that point cannot take.
C22_RecheckOrLibraryFailures ==
    ApplyFailed => FailedInRecheck \/ FailedInTest \/ FailedInOperation

\* an apply that stopped at its second operation with an error that is neither
\* of the re-check nor of a test: a move from a location that D holds and that
\* the first operation moved away
C22_Witness ==
    /\ ApplyFailed
    /\ call.applied = 1
    /\ FailedInOperation
    /\ call.patch[2].op = "move"
    /\ Resolves(call.snapshot, call.patch[2].from)
    /\ call.result.failure.err = "OPERATION_FROM_UNRESOLVABLE"

\* ---- C23 ----
\* the turn of the apply loop that takes a test operation
TestTurn ==
    /\ call.pc = "applyPatch"
    /\ call.applied < Len(call.patch)
    /\ call.patch[call.applied + 1].op = "test"
    /\ call' # call

TestOutcome(op) ==
    IF ValueAt(call.workingDocument, op.path) = op.value
    THEN /\ call'.workingDocument = call.workingDocument
         /\ call'.applied = call.applied + 1
         /\ call'.pc = "applyPatch"
         /\ call'.result = call.result
    ELSE /\ call'.result.kind = "error"
         /\ call'.result.failure.at = call.applied + 1
         /\ call'.pc = thrown(call)

\* C23: mid-apply, a test operation compares its value with the value at its
\* path in the working copy as it stands then; unequal, the whole apply fails;
\* equal, the operation leaves the working copy unchanged and the apply goes on.
C23_TestComparesWorkingCopy ==
    [][TestTurn => TestOutcome(call.patch[call.applied + 1])]_vars

\* a test that passed as second operation on a value the first operation put
\* there, which the document passed by the caller does not hold
C23_Witness ==
    /\ call.pc = "applyPatch"
    /\ call.applied = 2
    /\ call.patch[2].op = "test"
    /\ ValueAt(call.workingDocument, call.patch[2].path) = call.patch[2].value
    /\ ValueAt(call.snapshot, call.patch[2].path) # call.patch[2].value

\* ---- C24 ----
\* C24: while a modify request is in flight the preset document does not
\* change: presetJson stays the document the request was sent with, so the
\* patched document installed on success was computed from the document that
\* is current when it is installed, and no edit of the user is overwritten.
C24_PresetFixedWhileModifying ==
    /\ [](ui.flight.kind = "modify" => ui.presetJson = ui.flight.original)
    /\ [][(/\ ui.flight.kind = "modify"
            /\ ui.flight.settled = "fulfilled"
            /\ ui'.flight.kind = "none")
                => ui.presetJson = ui.flight.original]_vars

\* ---- C25 ----
\* an upload, a modify or a download starts in this step
Starts == ui'.flight.kind # "none" /\ ui.flight.kind # ui'.flight.kind

\* the operation awaited after the step is the one awaited before it
SameOperation ==
    /\ ui'.flight.kind = ui.flight.kind
    /\ ui'.flight.original = ui.flight.original
    /\ ui'.flight.instruction = ui.flight.instruction

\* C25: an operation that set isBusy is the only one awaited while the flag is
\* set, no other is started from the controls until the flag is cleared, and
\* once its request has settled, fulfilled or rejected, isBusy is false again.
C25_BusyExcludesAndEnds ==
    /\ [](ui.isBusy <=> ui.flight.kind # "none")
    /\ [][ui.isBusy => ~Starts /\ (ui'.isBusy => SameOperation)]_vars
    /\ \A kind \in {"upload", "modify", "download"} :
            \A outcome \in {"fulfilled", "rejected"} :
                (ui.flight.kind = kind /\ ui.flight.settled = outcome) ~> ~ui.isBusy

\* a modify whose request was rejected has cleared the flag: the controls are
\* enabled again and the status shows the error of the request
C25_Witness ==
    /\ ~ui.isBusy
    /\ ui.flight = NoFlight
    /\ ui.status = Status("error", "Failed to fetch")
    /\ ~modifyDisabled(ui)

====
